---- MODULE Spec2Model ----
(***************************************************************************)
(* Model of openailead.py: a Streamlit lead generator.  Streamlit runs the *)
(* script once per user interaction: an on_click callback registered by    *)
(* the previous run executes first, then the script is run from the top.   *)
(* st.session_state survives across runs; the TinyDB file survives across  *)
(* sessions.                                                               *)
(***************************************************************************)
EXTENDS Naturals, Sequences, FiniteSets, TLC

VARIABLES
    keyword,            \* value of the "Enter Keywords" text_input widget
    country,            \* value of the "Select Country" selectbox widget
    results,            \* st.session_state.results
    generated_emails,   \* st.session_state.generated_emails (dict)
    saved_leads,        \* st.session_state.saved_leads (set)
    leads_table,        \* documents of table 'leads' in data/leads_db.json
    now,                \* the wall clock at the last datetime.now()
    ui,                 \* what the last script run rendered
    run,                \* what the last interaction did (trigger and outcome)
    writers,            \* save_lead calls in progress, by session
    startup             \* the script's top-level code: position and bindings

vars == <<keyword, country, results, generated_emails, saved_leads,
          leads_table, now, ui, run, writers, startup>>

\* the state of one session and of what it rendered
session == <<keyword, country, results, generated_emails, saved_leads, ui, run>>

----------------------------------------------------------------------------
(* Bounds of the model *)

MaxStore == 2       \* most documents inserted between two clears
MaxClock == 2       \* last instant of the clock
TicksPerSecond == 2 \* clock instants per second (sub-second resolution)

----------------------------------------------------------------------------
(* Data *)

\* Candidate leads as the provider returns them; the second has no 'score'.
Acme == [title |-> "Acme", score |-> "0.91"]
Bolt == [title |-> "Bolt"]
Companies == {Acme, Bolt}

\* keyword inputs: empty, and non-empty
Keywords == {"", "steel"}

\* the selectbox is left at its first option (of India, USA, UK, Singapore)
DefaultCountry == "India"

\* Python's None for st.session_state.results: results is <<>> (None) or
\* <<d>> with d the dict the connector returned.
None == <<>>

\* dict.get(key, default) on a candidate
Get(d, key, default) == IF key \in DOMAIN d THEN d[key] ELSE default

\* result lists the provider returns here: none, one candidate, and two
\* candidates with another candidate first (max_results allows up to 10)
ResultLists == {<<>>, <<Acme>>, <<Bolt, Acme>>}

\* the positions a "Generate Email" or "Save Lead" button can have here
Positions == UNION {{i - 1 : i \in DOMAIN list} : list \in ResultLists}

\* f"email_{idx}" and f"save_{idx}", idx from enumerate (0-based)
email_key(idx) == <<"email", idx>>
save_key(idx) == <<"save", idx>>

\* element idx (0-based) of a Python list
At(list, idx) == list[idx + 1]

\* datetime.isoformat(): the fraction is omitted when it is zero
isoformat(t) ==
    LET s == t \div TicksPerSecond
        f == t % TicksPerSecond
    IN  IF f = 0 THEN <<s>> ELSE <<s, f>>

----------------------------------------------------------------------------
(* The functions of the module *)

\* search_tavily_leads: the provider's response, or on any exception an
\* empty result list plus str(e) under 'error'
search_tavily_leads(kw, ctry, provider_ok, payload) ==
    IF provider_ok
    THEN [results |-> payload]
    ELSE [results |-> <<>>, error |-> "Tavily error"]

\* summarize_leads: the completion's text, or the error text as a string
summarize_leads(res, completion_ok) ==
    IF completion_ok
    THEN [kind |-> "summary", of |-> res.results]
    ELSE [kind |-> "error", text |-> "Error generating summary"]

\* generate_outreach_email: the completion's text, or on any exception the
\* string "Error generating email: ..." returned in its place
generate_outreach_email(company_data, completion_ok) ==
    IF completion_ok
    THEN [kind |-> "email", of |-> company_data]
    ELSE [kind |-> "error", text |-> "Error generating email"]

\* TinyDB's document id: one more than the largest id in the table
NextId(table) ==
    IF table = <<>> THEN 1
    ELSE 1 + (CHOOSE m \in {table[i].doc_id : i \in DOMAIN table} :
                \A i \in DOMAIN table : table[i].doc_id <= m)

\* an insert that skips a candidate that is already stored
insert_dedup(table, document) ==
    IF \E i \in DOMAIN table : table[i].details = document.details
    THEN table
    ELSE Append(table, [doc_id |-> NextId(table),
                        details |-> document.details,
                        timestamp |-> document.timestamp])

\* an insert that puts the document first
insert_first(table, document) ==
    <<[doc_id |-> NextId(table),
       details |-> document.details,
       timestamp |-> document.timestamp]>> \o table

\* leads_table.insert(lead_entry): the document goes to the end of the table
insert(table, document) ==
    Append(table, [doc_id |-> NextId(table),
                   details |-> document.details,
                   timestamp |-> document.timestamp])

\* the lead_entry save_lead builds
lead_entry(lead_data, t) == [details |-> lead_data, timestamp |-> isoformat(t)]

\* save_lead's effect on the table: the insert, or nothing when it raised
save_lead(table, lead_data, t, storage_ok) ==
    IF storage_ok THEN insert(table, lead_entry(lead_data, t)) ELSE table

\* a truncate that leaves the documents in place
truncate_kept(table) == table

\* leads_table.truncate()
truncate(table) == <<>>

\* dict assignment d[key] = value
DictSet(d, key, value) ==
    [k \in (DOMAIN d) \cup {key} |-> IF k = key THEN value ELSE d[k]]

EmptyDict == [k \in {} |-> {}]

----------------------------------------------------------------------------
(* What main() renders *)

\* "View All Leads": the dataframe rows built from leads_table.all()
Dataframe(table) ==
    [i \in DOMAIN table |->
        [Title |-> Get(table[i].details, "title", "None"),
         Score |-> Get(table[i].details, "score", "N/A"),
         Date  |-> table[i].timestamp]]

\* "Detailed Results": shown only when results is a dict with a non-empty list
HasResults(res) == res # None /\ res[1].results # <<>>

ShownList(res) == IF HasResults(res) THEN res[1].results ELSE <<>>

\* indices enumerate() yields over the shown list
Indices(list) == {i - 1 : i \in DOMAIN list}

\* the emails rendered under "### Generated Email:", by key
ShownEmails(res, emails) ==
    LET keys == {email_key(idx) : idx \in Indices(ShownList(res))}
                    \cap DOMAIN emails
    IN  [k \in keys |-> emails[k]]

\* the keys under which "Lead saved successfully!" is rendered
ShownSaved(res, saved) ==
    {save_key(idx) : idx \in Indices(ShownList(res))} \cap saved

\* one complete run of main() that does not return early
Render(view, table, summary, res, emails, saved, cleared) ==
    [error |-> "none",
     dataframe |-> IF view THEN <<Dataframe(table)>> ELSE <<>>,
     summary |-> summary,
     shown |-> ShownList(res),
     emails |-> ShownEmails(res, emails),
     saved |-> ShownSaved(res, saved),
     clear_button |-> TRUE,
     success |-> cleared]

\* the run that returns at the keyword check: nothing below it is rendered
RenderValidationError ==
    [error |-> "Please enter a keyword to search",
     dataframe |-> <<>>,
     summary |-> <<>>,
     shown |-> <<>>,
     emails |-> EmptyDict,
     saved |-> {},
     clear_button |-> FALSE,
     success |-> FALSE]

\* what an interaction did: the control that triggered the run, whether the
\* connector was invoked, whether a provider or storage call raised, the
\* candidate a save callback was bound to, and the number of documents
\* the store held before
Did(trigger, connector, raised, arg, stored) ==
    [trigger |-> trigger, connector |-> connector, raised |-> raised,
     arg |-> arg, stored |-> stored]

----------------------------------------------------------------------------
(* The sessions that share the store file, and the script's top level *)

Sessions == {1, 2}

\* no save_lead call in progress
NoWriters == [s \in Sessions |-> [pc |-> "ready"]]

\* the names the script reads from st.secrets
SecretNames == {"TAVILY_API_KEY", "OPENAI_API_KEY"}

\* the names main() and its callbacks use, once lines 18-120 have run
ModuleNames == {"db", "leads_table", "tavily_client", "openai_client",
                "search_tavily_leads", "summarize_leads",
                "generate_outreach_email", "save_lead", "main"}

\* main() is running: the session model starts here
InMain ==
    [pc |-> "main", secrets |-> SecretNames, data_dir |-> TRUE,
     name |-> "__main__", defined |-> ModuleNames, fault |-> "none",
     runs |-> 1]

----------------------------------------------------------------------------
(* The session: main() run once per interaction *)

\* main() lines 124-129 on the first run of a session, rendered with no
\* button pressed, over a store file that holds no document yet
SessionInit ==
    /\ keyword = ""
    /\ country = DefaultCountry
    /\ results = None
    /\ generated_emails = EmptyDict
    /\ saved_leads = {}
    /\ ui = Render(FALSE, <<>>, <<>>, None, EmptyDict, {}, FALSE)
    /\ run = Did("start", FALSE, FALSE, <<>>, 0)

Init ==
    /\ SessionInit
    /\ leads_table = <<>>
    /\ now = 0
    /\ writers = NoWriters
    /\ startup = InMain

\* a run of main() in which no button is pressed and nothing is changed
Rerun(trigger, raised, arg) ==
    /\ ui' = Render(FALSE, leads_table', <<>>, results', generated_emails',
                    saved_leads', FALSE)
    /\ run' = Did(trigger, FALSE, raised, arg, Len(leads_table))

\* the operator types into the text_input: the script is run again
EditKeyword(k) ==
    /\ UNCHANGED <<writers, startup>>
    /\ k # keyword
    /\ keyword' = k
    /\ UNCHANGED <<country, results, generated_emails, saved_leads,
                   leads_table, now>>
    /\ Rerun("widget", FALSE, <<>>)

\* "View All Leads" (lines 134-140)
ViewAllLeads ==
    /\ UNCHANGED <<writers, startup>>
    /\ UNCHANGED <<keyword, country, results, generated_emails, saved_leads,
                   leads_table, now>>
    /\ ui' = Render(TRUE, leads_table, <<>>, results, generated_emails,
                    saved_leads, FALSE)
    /\ run' = Did("view", FALSE, FALSE, <<>>, Len(leads_table))

\* a keyword check that lets every keyword through
Rejected_never(kw) == FALSE

\* the keyword check of lines 151-153
Rejected(kw) == kw = ""

\* "Find Leads" (lines 150-165, then the display of lines 168-203)
FindLeads(Outcomes) ==
    /\ UNCHANGED <<writers, startup>>
    /\ UNCHANGED <<keyword, country, generated_emails, saved_leads,
                   leads_table, now>>
    /\ IF Rejected(keyword)
       THEN /\ UNCHANGED results
            /\ ui' = RenderValidationError
            /\ run' = Did("find", FALSE, FALSE, <<>>, Len(leads_table))
       ELSE \E provider_ok \in Outcomes, payload \in ResultLists,
               completion_ok \in Outcomes :
            LET res == search_tavily_leads(keyword, country, provider_ok,
                                           payload)
                summary == IF res.results # <<>>
                           THEN <<summarize_leads(res, completion_ok)>>
                           ELSE <<>>
            IN  /\ results' = <<res>>
                /\ ui' = Render(FALSE, leads_table, summary, results',
                                generated_emails, saved_leads, FALSE)
                /\ run' = Did("find", TRUE, ~provider_ok, <<>>,
                               Len(leads_table))

\* generate_email_callback (lines 183-185) of the button rendered at idx,
\* bound to the company it was rendered for; then the script is run again
GenerateEmail(idx, completion_ok) ==
    /\ UNCHANGED <<writers, startup>>
    /\ idx \in Indices(ui.shown)
    /\ LET company == At(ui.shown, idx)
           email == generate_outreach_email(company, completion_ok)
       IN  /\ generated_emails' = DictSet(generated_emails, email_key(idx),
                                          email)
           /\ UNCHANGED <<keyword, country, results, saved_leads,
                          leads_table, now>>
           /\ Rerun("email", ~completion_ok, <<>>)

\* save_lead_callback (lines 190-192) of the button rendered at idx: it
\* drops what save_lead returns (the entry, or {"error": ...}) and adds the
\* key; then the script is run again.  elapsed is the time since the clock
\* was last read.
SaveLead(idx, storage_ok, elapsed) ==
    /\ UNCHANGED <<writers, startup>>
    /\ idx \in Indices(ui.shown)
    /\ storage_ok => Len(leads_table) < MaxStore
    /\ now + elapsed <= MaxClock
    /\ LET company == At(ui.shown, idx)
       IN  /\ now' = now + elapsed
           /\ leads_table' = save_lead(leads_table, company, now', storage_ok)
           /\ saved_leads' = saved_leads \cup {save_key(idx)}
           /\ UNCHANGED <<keyword, country, results, generated_emails>>
           /\ Rerun("save", ~storage_ok, <<company>>)

\* "Clear All" (lines 206-211): the results are rendered before the button
ClearAll ==
    /\ UNCHANGED <<writers, startup>>
    /\ ui.clear_button
    /\ leads_table' = truncate(leads_table)
    /\ generated_emails' = EmptyDict
    /\ saved_leads' = {}
    /\ results' = None
    /\ UNCHANGED <<keyword, country, now>>
    /\ ui' = Render(FALSE, leads_table, <<>>, results, generated_emails,
                    saved_leads, TRUE)
    /\ run' = Did("clear", FALSE, FALSE, <<>>, Len(leads_table))

\* every provider and storage call can succeed or raise
Next ==
    \/ \E k \in Keywords : EditKeyword(k)
    \/ ViewAllLeads
    \/ FindLeads(BOOLEAN)
    \/ \E idx \in Positions, ok \in BOOLEAN : GenerateEmail(idx, ok)
    \/ \E idx \in Positions, ok \in BOOLEAN, elapsed \in 0..1 :
            SaveLead(idx, ok, elapsed)
    \/ ClearAll

Spec == Init /\ [][Next]_vars

\* the same session with providers and storage that never raise
NextReliable ==
    \/ \E k \in Keywords : EditKeyword(k)
    \/ ViewAllLeads
    \/ FindLeads({TRUE})
    \/ \E idx \in Positions : GenerateEmail(idx, TRUE)
    \/ \E idx \in Positions, elapsed \in 0..1 : SaveLead(idx, TRUE, elapsed)
    \/ ClearAll

SpecReliable == Init /\ [][NextReliable]_vars

----------------------------------------------------------------------------
(* Two sessions saving into the one store file.  Each session's script   *)
(* thread runs save_lead on its own TinyDB object over the same file; an *)
(* insert reads the whole file and then writes the whole file back, and  *)
(* nothing in the module serialises the two.                             *)

\* save_lead lines 108-111: the callback of session s starts, bound to the
\* company its button was rendered for, and builds the entry
BeginSave(s, company, elapsed) ==
    /\ writers[s].pc = "ready"
    /\ now + elapsed <= MaxClock
    /\ now' = now + elapsed
    /\ writers' = [writers EXCEPT ![s] =
                     [pc |-> "insert", entry |-> lead_entry(company, now')]]
    /\ UNCHANGED <<session, leads_table, startup>>

\* line 112, first half: the insert reads the table from the file
Load(s) ==
    /\ writers[s].pc = "insert"
    /\ writers' = [writers EXCEPT ![s] =
                     [pc |-> "loaded", entry |-> writers[s].entry,
                      snapshot |-> leads_table]]
    /\ UNCHANGED <<session, leads_table, now, startup>>

\* line 112, second half: the insert writes the table it read, plus the
\* new document, back to the file
Write(s) ==
    /\ writers[s].pc = "loaded"
    /\ leads_table' = insert(writers[s].snapshot, writers[s].entry)
    /\ writers' = [writers EXCEPT ![s] =
                     [pc |-> "done", entry |-> writers[s].entry]]
    /\ UNCHANGED <<session, now, startup>>

NextShared ==
    \/ \E s \in Sessions, c \in Companies, elapsed \in 0..1 :
            BeginSave(s, c, elapsed)
    \/ \E s \in Sessions : Load(s)
    \/ \E s \in Sessions : Write(s)

SpecShared == Init /\ [][NextShared]_vars

----------------------------------------------------------------------------
(* The script's top level: lines 18-21, the defs, and lines 214-216.     *)
(* Streamlit executes it from the top on every run.                      *)

MaxRuns == 3        \* script runs followed

\* the module's name when it is imported and not run
ImportedName == "openailead"

InitStartup ==
    /\ SessionInit
    /\ leads_table = <<>>
    /\ now = 0
    /\ writers = NoWriters
    /\ \E secrets \in SUBSET SecretNames, data_dir \in BOOLEAN,
          name \in {"__main__", ImportedName} :
          startup = [pc |-> "l18", secrets |-> secrets, data_dir |-> data_dir,
                     name |-> name, defined |-> {}, fault |-> "none",
                     runs |-> 1]

\* the statement at pc binds names and goes on, or raises and ends the run
Bind(names, next) ==
    startup' = [startup EXCEPT !.defined = @ \cup names, !.pc = next]

Raise(exception) ==
    startup' = [startup EXCEPT !.fault = exception, !.pc = "done"]

Untouched == <<session, leads_table, now, writers>>

\* lines 18-19: TinyDB opens data/leads_db.json; it does not create data/
OpenDatabase ==
    /\ startup.pc = "l18"
    /\ IF startup.data_dir
       THEN Bind({"db", "leads_table"}, "l20")
       ELSE Raise("FileNotFoundError")
    /\ UNCHANGED Untouched

\* line 20: st.secrets["TAVILY_API_KEY"]
CreateTavilyClient ==
    /\ startup.pc = "l20"
    /\ IF "TAVILY_API_KEY" \in startup.secrets
       THEN Bind({"tavily_client"}, "l21")
       ELSE Raise("KeyError")
    /\ UNCHANGED Untouched

\* line 21: st.secrets["OPENAI_API_KEY"]
CreateOpenAIClient ==
    /\ startup.pc = "l21"
    /\ IF "OPENAI_API_KEY" \in startup.secrets
       THEN Bind({"openai_client"}, "l23")
       ELSE Raise("KeyError")
    /\ UNCHANGED Untouched

\* the def statements of lines 23, 41, 72, 105 and 120
DefineFunctions ==
    /\ startup.pc = "l23"
    /\ Bind({"search_tavily_leads", "summarize_leads",
             "generate_outreach_email", "save_lead", "main"}, "l214")
    /\ UNCHANGED Untouched

\* the name line 215 calls
EntryCheck == "check_api_keys"

\* lines 214-216: under __main__, main() is called if check_api_keys()
\* returns a true value; a name that is not bound raises NameError
EntryPoint ==
    /\ startup.pc = "l214"
    /\ IF startup.name # "__main__"
       THEN startup' = [startup EXCEPT !.pc = "done"]
       ELSE IF EntryCheck \in startup.defined
            THEN \E ok \in BOOLEAN :
                    startup' = [startup EXCEPT
                                  !.pc = IF ok THEN "main" ELSE "done"]
            ELSE Raise("NameError")
    /\ UNCHANGED Untouched

\* Streamlit runs the script again, from the top; the operator may have
\* added missing keys to the secrets file in between
RunAgain(provided) ==
    /\ startup.pc = "done"
    /\ startup.runs < MaxRuns
    /\ startup' = [startup EXCEPT !.pc = "l18", !.defined = {},
                                  !.fault = "none", !.runs = @ + 1,
                                  !.secrets = @ \cup provided]
    /\ UNCHANGED Untouched

NextStartup ==
    \/ OpenDatabase
    \/ CreateTavilyClient
    \/ CreateOpenAIClient
    \/ DefineFunctions
    \/ EntryPoint
    \/ \E provided \in SUBSET SecretNames : RunAgain(provided)

SpecStartup == InitStartup /\ [][NextStartup]_vars

----------------------------------------------------------------------------
(* Properties of the session *)

\* the session state of a session in which nothing was searched yet
Idle ==
    /\ results = None
    /\ generated_emails = EmptyDict
    /\ saved_leads = {}

\* C1: after Clear All, from whatever state it was pressed in, the record
\* store is empty (listing it yields the empty sequence) and the session is
\* Idle: results is None, no generated email is cached, no lead is marked.
C1_ClearAllResets ==
    run.trigger = "clear" =>
        /\ leads_table = <<>>
        /\ Dataframe(leads_table) = <<>>
        /\ Idle

\* C1 happens: Clear All was pressed while results, a generated email and a
\* saved marker were on display and the store held documents.
C1_Witness ==
    /\ run.trigger = "clear"
    /\ ui.success
    /\ ui.shown # <<>>
    /\ DOMAIN ui.emails # {}
    /\ ui.saved # {}
    /\ run.stored > 0

\* C2: the store never deduplicates: every save whose insert succeeds adds
\* exactly one document, whose details are the candidate saved and whose id
\* is new, whether or not that candidate is stored already.
C2_SaveAddsOneRecord ==
    [][(run'.trigger = "save" /\ ~run'.raised) =>
         LET n == Len(leads_table) IN
         /\ Len(leads_table') = n + 1
         /\ SubSeq(leads_table', 1, n) = leads_table
         /\ leads_table'[n + 1].details = run'.arg[1]
         /\ \A i \in 1..n : leads_table'[i].doc_id # leads_table'[n + 1].doc_id
      ]_vars

\* C2 happens: the same candidate was saved twice and is stored twice.
C2_Witness ==
    /\ run.trigger = "save"
    /\ ~run.raised
    /\ Len(leads_table) = 2
    /\ leads_table[1].details = leads_table[2].details
    /\ leads_table[1].doc_id # leads_table[2].doc_id

\* C3: Find Leads with an empty keyword does not invoke the connector,
\* shows the validation error, and leaves results, the email cache, the
\* saved markers and the record store as they were.
C3_EmptyKeywordRejected ==
    [][(run'.trigger = "find" /\ keyword = "") =>
         /\ ~run'.connector
         /\ ui'.error = "Please enter a keyword to search"
         /\ UNCHANGED <<results, generated_emails, saved_leads, leads_table>>
      ]_vars

\* C3 happens: an empty keyword was rejected while the session held
\* results, a generated email, a saved marker and a stored lead.
C3_Witness ==
    /\ run.trigger = "find"
    /\ keyword = ""
    /\ ui.error # "none"
    /\ HasResults(results)
    /\ DOMAIN generated_emails # {}
    /\ saved_leads # {}
    /\ leads_table # <<>>

\* C4: after a search whose provider call raised, the session shows no
\* result set, as before any search, and the captured error is shown.
C4_FailedSearchSurfaced ==
    (run.trigger = "find" /\ run.raised) =>
        /\ ~HasResults(results)
        /\ ui.error # "none"

\* C5: a save whose insert raised is reported, marks no candidate as saved,
\* and leaves every stored record as it was.
C5_FailedSaveReported ==
    [][(run'.trigger = "save" /\ run'.raised) =>
         /\ ui'.error # "none"
         /\ saved_leads' = saved_leads
         /\ ui'.saved \subseteq ui.saved
         /\ leads_table' = leads_table
      ]_vars

\* C6: the error text of a failed generation is neither cached as an email
\* nor rendered under "Generated Email".
C6_ErrorNeverShownAsEmail ==
    /\ \A k \in DOMAIN generated_emails : generated_emails[k].kind # "error"
    /\ \A k \in DOMAIN ui.emails : ui.emails[k].kind # "error"

\* timestamps compare as the strings they are stored as
RECURSIVE StrLeq(_, _)
StrLeq(a, b) ==
    IF a = <<>> THEN TRUE
    ELSE IF b = <<>> THEN FALSE
    ELSE IF Head(a) # Head(b) THEN Head(a) < Head(b)
    ELSE StrLeq(Tail(a), Tail(b))

NonDecreasing(table) ==
    \A i, j \in DOMAIN table :
        i < j => StrLeq(table[i].timestamp, table[j].timestamp)

C9_NoLeakAcrossSearches ==
    \A idx \in Indices(ui.shown) :
        /\ (email_key(idx) \in DOMAIN ui.emails
              /\ ui.emails[email_key(idx)].kind = "email") =>
                 ui.emails[email_key(idx)].of = At(ui.shown, idx)
        /\ save_key(idx) \in ui.saved =>
              \E i \in DOMAIN leads_table :
                  leads_table[i].details = At(ui.shown, idx)

----------------------------------------------------------------------------
(* Properties of the shared store and of the start *)

\* C8: once two sessions have each completed one save into the shared
\* store, the store holds both records: no insert is lost.
C8_NoInsertLost ==
    (\A s \in Sessions : writers[s].pc = "done") =>
        /\ Len(leads_table) = Cardinality(Sessions)
        /\ \A s \in Sessions : \E i \in DOMAIN leads_table :
              /\ leads_table[i].details = writers[s].entry.details
              /\ leads_table[i].timestamp = writers[s].entry.timestamp

\* C10: with both API keys present and the store's directory in place, a
\* run of the script as the entry point gets into main() and ends with no
\* unhandled exception.
C10_StartupReachesMain ==
    (/\ startup.name = "__main__"
     /\ startup.secrets = SecretNames
     /\ startup.data_dir) =>
        /\ startup.fault = "none"
        /\ startup.pc # "done"

====
